---- MODULE Spec2Model ----
(***************************************************************************)
(* Model of src/mrbwrite.js: the class MRBWriteSync (a promise wrapper     *)
(* around a serial port and its readline parser) and mrbwrite_main, the    *)
(* session that probes the board, uploads a bytecode image and runs it.    *)
(*                                                                         *)
(* JavaScript runs every callback to completion: when an event of the      *)
(* port, the parser or a timer is dispatched, its handler runs and then    *)
(* every promise continuation it made runnable, up to the next await that  *)
(* has to wait for another event.  Each action below is one such event     *)
(* with everything it runs.  Text is modelled as the sequence of its       *)
(* bytes (what port.write puts on the wire and what the parser hands to    *)
(* toString).                                                              *)
(***************************************************************************)
EXTENDS Integers, Sequences, FiniteSets, TLC

VARIABLES
    pc,           \* where mrbwrite_main is suspended ("L<line>", w = write, r = read)
    isConnected,  \* MRBWriteSync.isConnected
    isOpen,       \* port.isOpen of the serialport object
    writes,       \* the data of every port.write call, in order
    reads,        \* one record per readSync call that passed the isConnected test
    attempts,     \* iterations of the probe loop begun so far
    result,       \* value of the last await of a read or of sendCommandSync
    error,        \* what the catch block of mrbwrite_main caught ("none" if nothing)
    disconnects,  \* number of disconnectSync calls
    bytecodes,    \* the array `bytecodes` of the command line entry after line 261
    lastData,     \* history: the last chunk the parser emitted as 'data'
    bannerSeen,   \* history: some awaited read resolved with a `+OK mruby/c` line
    closeEvent,   \* history: the port emitted 'close' by itself during the session
    failed,       \* history: the indices in `writes` of the writes whose callback got an error
    files,        \* the array `files` of the command line entry, as the contents of each file
    commands,     \* executeCommandsSync: its argument `commands`
    delay,        \* executeCommandsSync: its argument `delay`
    results,      \* executeCommandsSync: its array `results`
    position      \* executeCommandsSync: number of commands the for loop has taken

vars == <<pc, isConnected, isOpen, writes, reads, attempts, result, error,
          disconnects, bytecodes, lastData, bannerSeen, closeEvent, failed,
          files, commands, delay, results, position>>

\* the variables of executeCommandsSync, which mrbwrite_main does not call
execVars == <<commands, delay, results, position>>

-----------------------------------------------------------------------------
(* Bounds of the model *)

\* the probe loop of lines 180-184 has no bound; the model stops feeding it
\* non-matching lines after this many iterations
MaxProbes == 3

\* number of bytes that follow the RITE marker in the longest image
MaxPad == 6

\* number of files on the command line
MaxFiles == 3

\* number of commands handed to executeCommandsSync
MaxCommands == 2

-----------------------------------------------------------------------------
(* Text, as bytes *)

\* '\n', the probe of line 181
Probe == <<10>>

\* 'version\r\n', lines 187 and 197
Version == <<118, 101, 114, 115, 105, 111, 110, 13, 10>>

\* 'execute\r\n', line 201
Execute == <<101, 120, 101, 99, 117, 116, 101, 13, 10>>

\* 'write ', the head of the command of line 191
WriteHead == <<119, 114, 105, 116, 101, 32>>

\* '\r\n', the tail of the command of line 191
CrLf == <<13, 10>>

\* '+OK mruby/c', the prefix tested on line 183
Banner == <<43, 79, 75, 32, 109, 114, 117, 98, 121, 47, 99>>

\* 'RITE', the marker tested on line 250
Rite == <<82, 73, 84, 69>>

\* "" as returned by the catch of sendCommandSync, line 95
Empty == <<>>

\* the default of readSync's timeout parameter, line 15
responseTimeout == 1000

\* String.prototype.startsWith
StartsWith(s, p) == Len(s) >= Len(p) /\ SubSeq(s, 1, Len(p)) = p

\* the white space String.prototype.trim removes (within one-byte characters)
IsSpace(c) == c \in {9, 10, 11, 12, 13, 32}

RECURSIVE TrimStart(_)
TrimStart(s) ==
    IF s # <<>> /\ IsSpace(Head(s)) THEN TrimStart(Tail(s)) ELSE s

RECURSIVE TrimEnd(_)
TrimEnd(s) ==
    IF s # <<>> /\ IsSpace(s[Len(s)]) THEN TrimEnd(SubSeq(s, 1, Len(s) - 1)) ELSE s

\* data.toString().trim(), line 81
Trim(s) == TrimEnd(TrimStart(s))

\* number to string conversion of `"write " + bytecode.length`, line 191
RECURSIVE Decimal(_)
Decimal(n) ==
    IF n < 10 THEN <<48 + n>> ELSE Decimal(n \div 10) \o <<48 + (n % 10)>>

\* variant: the announced length counts a line terminator after the image
WriteCommandWithTerminator(image) ==
    WriteHead \o Decimal(Len(image) + 2) \o CrLf

\* "write " + bytecode.length + "\r\n", line 191
WriteCommand(image) == WriteHead \o Decimal(Len(image)) \o CrLf

-----------------------------------------------------------------------------
(* Inputs *)

\* an image file: the marker and n more bytes, line feeds and zeros among them
Image(n) == Rite \o [i \in 1..n |-> IF i % 2 = 1 THEN 10 ELSE 0]

Images == {Image(n) : n \in {0, 1, MaxPad}}

\* files that are no image: shorter than the marker, and another marker
ShortFile == <<82, 73, 84>>
OtherFile == <<82, 73, 84, 70, 69, 10>>

FileContents == Images \cup {ShortFile, OtherFile}

\* the lines the board's console may send, as the parser emits them (the
\* delimiter '\n' removed, the '\r' before it still there)
BannerLine == <<32>> \o Banner \o <<32, 118, 51, 13>>
OtherLine == <<43, 79, 75, 32, 111, 116, 104, 101, 114, 13>>
BlankLine == <<13>>

Lines == {BannerLine, OtherLine, BlankLine}

-----------------------------------------------------------------------------
(* The command line entry, lines 243-264 *)

\* data.length >= 4 && data.toString('utf8', 0, 4) === 'RITE', line 250
isBytecode(data) == Len(data) >= 4 /\ SubSeq(data, 1, 4) = Rite

\* the loop of lines 245-255: the accepted files, pushed in order
RECURSIVE Accepted(_)
Accepted(fs) ==
    IF fs = <<>> THEN <<>>
    ELSE IF isBytecode(Head(fs)) THEN <<Head(fs)>> \o Accepted(Tail(fs))
         ELSE Accepted(Tail(fs))

\* Buffer.concat(list)
RECURSIVE BufferConcat(_)
BufferConcat(list) ==
    IF list = <<>> THEN <<>> ELSE Head(list) \o BufferConcat(Tail(list))

\* variant: the images are joined only from the third on
CombinedFromThree(list) ==
    IF Len(list) > 2 THEN <<BufferConcat(list)>> ELSE list

\* lines 258-261: several images become one
Combined(list) ==
    IF Len(list) > 1 THEN <<BufferConcat(list)>> ELSE list

-----------------------------------------------------------------------------
(* The state as one record, for the operators that run a continuation *)

Cur ==
    [pc |-> pc, isConnected |-> isConnected, isOpen |-> isOpen,
     writes |-> writes, reads |-> reads, attempts |-> attempts,
     result |-> result, error |-> error, disconnects |-> disconnects,
     bytecodes |-> bytecodes, commands |-> commands, delay |-> delay,
     results |-> results, position |-> position]

Becomes(s) ==
    /\ pc' = s.pc
    /\ isConnected' = s.isConnected
    /\ isOpen' = s.isOpen
    /\ writes' = s.writes
    /\ reads' = s.reads
    /\ attempts' = s.attempts
    /\ result' = s.result
    /\ error' = s.error
    /\ disconnects' = s.disconnects
    /\ bytecodes' = s.bytecodes
    /\ commands' = s.commands
    /\ delay' = s.delay
    /\ results' = s.results
    /\ position' = s.position

WritePcs == {"L181w", "L187w", "L191w", "L193", "L197w", "L201w"}
ReadPcs == {"L181r", "L183", "L187r", "L191r", "L194", "L197r", "L201r"}
SendLines == {181, 187, 191, 197, 201}

WritePc(l) ==
    CASE l = 181 -> "L181w" [] l = 187 -> "L187w" [] l = 191 -> "L191w"
      [] l = 193 -> "L193" [] l = 197 -> "L197w" [] l = 201 -> "L201w"
      [] l = 105 -> "L105w"

ReadPc(l) ==
    CASE l = 181 -> "L181r" [] l = 183 -> "L183" [] l = 187 -> "L187r"
      [] l = 191 -> "L191r" [] l = 194 -> "L194" [] l = 197 -> "L197r"
      [] l = 201 -> "L201r" [] l = 105 -> "L105r"

LineOf(p) ==
    CASE p \in {"L181w", "L181r"} -> 181 [] p = "L183" -> 183
      [] p \in {"L187w", "L187r"} -> 187 [] p \in {"L191w", "L191r"} -> 191
      [] p = "L193" -> 193 [] p = "L194" -> 194
      [] p \in {"L197w", "L197r"} -> 197 [] p \in {"L201w", "L201r"} -> 201
      [] p \in {"L105w", "L105r"} -> 105

\* variant: `execute` follows the read of line 194 directly
NextLineWithoutRecheck(l) ==
    CASE l = 181 -> 183 [] l = 187 -> 191 [] l = 191 -> 193 [] l = 193 -> 194
      [] l = 194 -> 201 [] l = 197 -> 201 [] l = 201 -> 205

\* the statement of mrbwrite_main that follows the one on line l
NextLine(l) ==
    CASE l = 181 -> 183 [] l = 187 -> 191 [] l = 191 -> 193 [] l = 193 -> 194
      [] l = 194 -> 197 [] l = 197 -> 201 [] l = 201 -> 205

-----------------------------------------------------------------------------
(* MRBWriteSync *)

\* writeSync past its isConnected test: port.write(data, callback)
writeSync(s, data, l) ==
    [s EXCEPT !.writes = Append(@, data), !.pc = WritePc(l)]

\* readSync past its isConnected test: the timer is set, the listener registered
readSync(s, timeout, l) ==
    [s EXCEPT !.reads = Append(@, [timeout |-> timeout, timer |-> TRUE,
                                   listener |-> TRUE, st |-> "pending"]),
              !.pc = ReadPc(l)]

\* variant: the listener does not clear the timer
onDataKeepsTimer(r) ==
    [r EXCEPT !.listener = FALSE,
              !.st = IF @ = "pending" THEN "resolved" ELSE @]

\* the listener onData of one readSync call
onData(r) ==
    [r EXCEPT !.timer = FALSE, !.listener = FALSE,
              !.st = IF @ = "pending" THEN "resolved" ELSE @]

\* variant: a line is handed to the oldest registered listener only
emitToOldest(rs) ==
    [i \in 1..Len(rs) |->
        IF rs[i].listener /\ \A j \in 1..(i - 1) : ~rs[j].listener
        THEN onData(rs[i]) ELSE rs[i]]

\* the parser emits 'data': every listener registered by line 84 runs
emit(rs) ==
    [i \in 1..Len(rs) |-> IF rs[i].listener THEN onData(rs[i]) ELSE rs[i]]

\* the timer callback of one readSync call
onTimeout(r) ==
    [r EXCEPT !.timer = FALSE,
              !.st = IF @ = "pending" THEN "rejected" ELSE @]

\* the catch block of mrbwrite_main: the function returns after logging
Caught(s, msg) == [s EXCEPT !.pc = "caught", !.error = msg]

\* variant: any `+OK` line leaves the loop
BannerCheckAnyOk(line) == StartsWith(line, <<43, 79, 75>>)

\* variant: receiver and argument of startsWith exchanged
BannerCheckReversed(line) == StartsWith(Banner, line)

\* the test that leaves the probe loop, line 183
BannerCheck(line) == StartsWith(line, Banner)

\* disconnectSync
disconnectSync(s) ==
    IF s.isOpen
    THEN [s EXCEPT !.disconnects = @ + 1, !.pc = "L205"]
    ELSE [s EXCEPT !.disconnects = @ + 1, !.pc = "done"]

\* mrbwrite_main from the statement on line l up to the next await that waits.
\* sendCommandSync is unfolded in place: when writeSync rejects at once it
\* returns "" and the next statement runs.
RECURSIVE Run(_, _)
Run(s, l) ==
    CASE l = 181 ->
           LET t == [s EXCEPT !.attempts = @ + 1]
           IN  IF t.isConnected THEN writeSync(t, Probe, 181)
               ELSE Run([t EXCEPT !.result = Empty], 183)
      [] l = 183 ->
           IF s.isConnected THEN readSync(s, 5000, 183)
           ELSE Caught(s, "not connected")
      [] l \in {187, 197} ->
           IF s.isConnected THEN writeSync(s, Version, l)
           ELSE Run([s EXCEPT !.result = Empty], NextLine(l))
      [] l = 191 ->
           IF s.bytecodes = <<>> THEN Caught(s, "TypeError")
           ELSE IF s.isConnected
                THEN writeSync(s, WriteCommand(s.bytecodes[1]), 191)
                ELSE Run([s EXCEPT !.result = Empty], 193)
      [] l = 193 ->
           IF s.isConnected THEN writeSync(s, s.bytecodes[1], 193)
           ELSE Caught(s, "not connected")
      [] l = 194 ->
           IF s.isConnected THEN readSync(s, 1000, 194)
           ELSE Caught(s, "not connected")
      [] l = 201 ->
           IF s.isConnected THEN writeSync(s, Execute, 201)
           ELSE Run([s EXCEPT !.result = Empty], 205)
      [] l = 205 -> disconnectSync(s)

\* the await on line l got the value v
Resolved(s, l, v) ==
    LET t == [s EXCEPT !.result = v]
    IN  IF l = 183
        THEN IF BannerCheck(v) THEN Run(t, 187) ELSE Run(t, 181)
        ELSE Run(t, NextLine(l))

\* variant: a failed `write <N>` command ends the session
RejectedStrictWrite(s, l, msg) ==
    IF l \in SendLines \ {191} THEN Resolved(s, l, Empty) ELSE Caught(s, msg)

\* the promise awaited on line l was rejected: sendCommandSync catches it and
\* returns "", the other awaits throw into the catch of mrbwrite_main
Rejected(s, l, msg) ==
    IF l \in SendLines THEN Resolved(s, l, Empty) ELSE Caught(s, msg)

\* variant: sendCommandSync does not await its readSync
WrittenWithoutAwait(s, l) ==
    IF l = 193 THEN Run(s, 194)
    ELSE IF s.isConnected
         THEN Run(readSync(s, responseTimeout, l), NextLine(l))
         ELSE Rejected(s, l, "not connected")

\* the callback of port.write ran without an error on line l
Written(s, l) ==
    IF l = 193 THEN Run(s, 194)
    ELSE IF s.isConnected THEN readSync(s, responseTimeout, l)
         ELSE Rejected(s, l, "not connected")

-----------------------------------------------------------------------------
(* Initial state and actions *)

Init ==
    /\ pc = "start"
    /\ isConnected = FALSE
    /\ isOpen = FALSE
    /\ writes = <<>>
    /\ reads = <<>>
    /\ attempts = 0
    /\ result = Empty
    /\ error = "none"
    /\ disconnects = 0
    /\ files \in {<<f>> : f \in Images \cup {OtherFile}}
    /\ bytecodes = Combined(Accepted(files))
    /\ lastData = <<>>
    /\ bannerSeen = FALSE
    /\ closeEvent = FALSE
    /\ failed = {}
    /\ commands = <<>>
    /\ delay = 0
    /\ results = <<>>
    /\ position = 0

\* mrbwrite_main is called: the object is built and connectSync calls port.open()
Start ==
    /\ pc = "start"
    /\ pc' = "L177"
    /\ UNCHANGED <<isConnected, isOpen, writes, reads, attempts, result, error,
                   disconnects, bytecodes, lastData, bannerSeen, closeEvent,
                   failed, files, execVars>>

\* the port emits 'open': connectSync resolves and the probe loop starts
OpenOk ==
    /\ pc = "L177"
    /\ Becomes(Run([Cur EXCEPT !.isOpen = TRUE, !.isConnected = TRUE], 181))
    /\ UNCHANGED <<lastData, bannerSeen, closeEvent, failed, files>>

\* the port emits 'error' instead: connectSync rejects
OpenFails ==
    /\ pc = "L177"
    /\ Becomes(Caught(Cur, "open"))
    /\ UNCHANGED <<lastData, bannerSeen, closeEvent, failed, files>>

\* the callback of port.write runs without an error
WriteDone ==
    /\ pc \in WritePcs
    /\ Becomes(Written(Cur, LineOf(pc)))
    /\ UNCHANGED <<lastData, bannerSeen, closeEvent, failed, files>>

\* the callback of port.write runs with an error
WriteFails ==
    /\ pc \in WritePcs
    /\ Becomes(Rejected(Cur, LineOf(pc), "write"))
    /\ failed' = failed \cup {Len(writes)}
    /\ UNCHANGED <<lastData, bannerSeen, closeEvent, files>>

\* the parser emits 'data': every registered listener runs, and the awaited
\* read, if there is one, resolves with the trimmed line
LineArrives(data) ==
    /\ isOpen
    /\ pc \notin {"start", "L177"}
    /\ pc = "L183" /\ ~BannerCheck(Trim(data)) => attempts < MaxProbes
    /\ LET heard == emit(reads)
           s == [Cur EXCEPT !.reads = heard]
           settled == /\ pc \in ReadPcs
                      /\ reads[Len(reads)].st = "pending"
                      /\ heard[Len(reads)].st = "resolved"
       IN  /\ IF settled
              THEN Becomes(Resolved(s, LineOf(pc), Trim(data)))
              ELSE Becomes(s)
           /\ bannerSeen' = (bannerSeen \/ (settled /\ StartsWith(Trim(data), Banner)))
    /\ lastData' = data
    /\ UNCHANGED <<closeEvent, failed, files>>

\* the timer of the awaited read fires
Timeout ==
    /\ pc \in ReadPcs
    /\ reads[Len(reads)].timer
    /\ LET s == [Cur EXCEPT !.reads[Len(reads)] = onTimeout(@)]
       IN  Becomes(Rejected(s, LineOf(pc), "timeout"))
    /\ UNCHANGED <<lastData, bannerSeen, closeEvent, failed, files>>

\* the port closes by itself (the cable is pulled) and emits 'close'
PortCloses ==
    /\ isOpen
    /\ pc \in WritePcs \cup ReadPcs
    /\ isOpen' = FALSE
    /\ isConnected' = FALSE
    /\ closeEvent' = TRUE
    /\ UNCHANGED <<pc, writes, reads, attempts, result, error, disconnects,
                   bytecodes, lastData, bannerSeen, failed, files, execVars>>

\* the callback of port.close of disconnectSync runs
CloseDone ==
    /\ pc = "L205"
    /\ pc' = "done"
    /\ isOpen' = FALSE
    /\ isConnected' = FALSE
    /\ UNCHANGED <<writes, reads, attempts, result, error, disconnects,
                   bytecodes, lastData, bannerSeen, closeEvent, failed, files,
                   execVars>>

Next ==
    \/ Start
    \/ OpenOk
    \/ OpenFails
    \/ WriteDone
    \/ WriteFails
    \/ \E data \in Lines : LineArrives(data)
    \/ Timeout
    \/ PortCloses
    \/ CloseDone

Spec == Init /\ [][Next]_vars

\* what the promise returned by mrbwrite_main has settled with: the function
\* has no return statement and its catch block does not throw
mainOutcome ==
    IF pc \in {"done", "caught"}
    THEN [state |-> "fulfilled", value |-> "undefined"]
    ELSE [state |-> "pending", value |-> "undefined"]

-----------------------------------------------------------------------------
(* executeCommandsSync, called by a user of the exported class *)

\* variant: readSync does not test isConnected
CanReadAlways(s) == TRUE

\* the test of writeSync, line 50
CanWrite(s) == s.isConnected

\* the test of readSync, line 69
CanRead(s) == s.isConnected

RECURSIVE ExecLoop(_)

\* the catch of executeCommandsSync, lines 112-114, and the next iteration
ExecThrown(s, msg) ==
    ExecLoop([s EXCEPT !.results =
                 Append(@, [command |-> s.commands[s.position], error |-> msg,
                            success |-> FALSE])])

\* variant: only a non-empty result is recorded
ExecReturnedIfTruthy(s, v) ==
    LET t == [s EXCEPT !.result = v,
                       !.results = IF v = Empty THEN @
                                   ELSE Append(@, [command |-> s.commands[s.position],
                                                   result |-> v, success |-> TRUE])]
    IN  IF t.delay > 0 THEN [t EXCEPT !.pc = "L110"] ELSE ExecLoop(t)

\* sendCommandSync returned v: lines 105-111, the result is pushed and the
\* loop sleeps when delay > 0
ExecReturned(s, v) ==
    LET t == [s EXCEPT !.result = v,
                       !.results = Append(@, [command |-> s.commands[s.position],
                                              result |-> v, success |-> TRUE])]
    IN  IF t.delay > 0 THEN [t EXCEPT !.pc = "L110"] ELSE ExecLoop(t)

\* variant: sendCommandSync lets the rejection through
sendCommandSyncRethrows(s, msg) == ExecThrown(s, msg)

\* the catch of sendCommandSync, lines 94-96: whatever was thrown, it returns ""
sendCommandSyncCatch(s, msg) == ExecReturned(s, Empty)

\* the for loop of line 103: the next command is sent, or the results returned
ExecLoop(s) ==
    IF s.position < Len(s.commands)
    THEN LET t == [s EXCEPT !.position = @ + 1]
         IN  IF CanWrite(t) THEN writeSync(t, t.commands[t.position], 105)
             ELSE sendCommandSyncCatch(t, "not connected")
    ELSE [s EXCEPT !.pc = "L117"]

\* what the caller may hand over as commands
CommandSet == {Probe, Version}

InitExec ==
    /\ pc = "L100"
    /\ isConnected \in BOOLEAN
    /\ isOpen = isConnected
    /\ writes = <<>>
    /\ reads = <<>>
    /\ attempts = 0
    /\ result = Empty
    /\ error = "none"
    /\ disconnects = 0
    /\ files = <<>>
    /\ bytecodes = <<>>
    /\ lastData = <<>>
    /\ bannerSeen = FALSE
    /\ closeEvent = FALSE
    /\ failed = {}
    /\ commands \in UNION {[1..n -> CommandSet] : n \in 0..MaxCommands}
    /\ delay \in {0, 100}
    /\ results = <<>>
    /\ position = 0

\* executeCommandsSync(commands, delay) is called
ExecCall ==
    /\ pc = "L100"
    /\ Becomes(ExecLoop(Cur))
    /\ UNCHANGED <<lastData, bannerSeen, closeEvent, failed, files>>

\* the callback of port.write runs without an error: sendCommandSync goes on
\* to readSync
ExecWriteDone ==
    /\ pc = "L105w"
    /\ IF CanRead(Cur)
       THEN Becomes(readSync(Cur, responseTimeout, 105))
       ELSE Becomes(sendCommandSyncCatch(Cur, "not connected"))
    /\ UNCHANGED <<lastData, bannerSeen, closeEvent, failed, files>>

\* the callback of port.write runs with an error
ExecWriteFails ==
    /\ pc = "L105w"
    /\ Becomes(sendCommandSyncCatch(Cur, "write"))
    /\ failed' = failed \cup {Len(writes)}
    /\ UNCHANGED <<lastData, bannerSeen, closeEvent, files>>

\* the parser emits 'data'
ExecLineArrives(data) ==
    /\ isOpen
    /\ pc \in {"L105w", "L105r", "L110"}
    /\ LET heard == emit(reads)
           s == [Cur EXCEPT !.reads = heard]
           settled == /\ pc = "L105r"
                      /\ reads[Len(reads)].st = "pending"
                      /\ heard[Len(reads)].st = "resolved"
       IN  IF settled THEN Becomes(ExecReturned(s, Trim(data))) ELSE Becomes(s)
    /\ lastData' = data
    /\ UNCHANGED <<bannerSeen, closeEvent, failed, files>>

\* the timer of the awaited read fires
ExecTimeout ==
    /\ pc = "L105r"
    /\ reads[Len(reads)].timer
    /\ LET s == [Cur EXCEPT !.reads[Len(reads)] = onTimeout(@)]
       IN  Becomes(sendCommandSyncCatch(s, "timeout"))
    /\ UNCHANGED <<lastData, bannerSeen, closeEvent, failed, files>>

\* the timer of sleep(delay) fires: the loop takes the next command
ExecSleepDone ==
    /\ pc = "L110"
    /\ Becomes(ExecLoop(Cur))
    /\ UNCHANGED <<lastData, bannerSeen, closeEvent, failed, files>>

\* the port closes by itself and emits 'close'
ExecPortCloses ==
    /\ isOpen
    /\ pc \in {"L105w", "L105r", "L110"}
    /\ isOpen' = FALSE
    /\ isConnected' = FALSE
    /\ closeEvent' = TRUE
    /\ UNCHANGED <<pc, writes, reads, attempts, result, error, disconnects,
                   bytecodes, lastData, bannerSeen, failed, files, execVars>>

NextExec ==
    \/ ExecCall
    \/ ExecWriteDone
    \/ ExecWriteFails
    \/ \E data \in Lines : ExecLineArrives(data)
    \/ ExecTimeout
    \/ ExecSleepDone
    \/ ExecPortCloses

SpecExec == InitExec /\ [][NextExec]_vars

-----------------------------------------------------------------------------
(* The command line entry: from the files named on the command line to the   *)
(* answer of the port to port.open(); the session that follows is Spec       *)

InitCli ==
    /\ pc = "cli"
    /\ isConnected = FALSE
    /\ isOpen = FALSE
    /\ writes = <<>>
    /\ reads = <<>>
    /\ attempts = 0
    /\ result = Empty
    /\ error = "none"
    /\ disconnects = 0
    /\ files \in UNION {[1..n -> FileContents] : n \in 1..MaxFiles}
    /\ bytecodes = <<>>
    /\ lastData = <<>>
    /\ bannerSeen = FALSE
    /\ closeEvent = FALSE
    /\ failed = {}
    /\ commands = <<>>
    /\ delay = 0
    /\ results = <<>>
    /\ position = 0

\* lines 243-264: the files are tested, the images joined, and mrbwrite_main
\* is called with bytecodes[0]
CommandLine ==
    /\ pc = "cli"
    /\ bytecodes' = Combined(Accepted(files))
    /\ pc' = "start"
    /\ UNCHANGED <<isConnected, isOpen, writes, reads, attempts, result, error,
                   disconnects, lastData, bannerSeen, closeEvent, failed,
                   files, execVars>>

NextCli ==
    \/ CommandLine
    \/ Start
    \/ OpenOk
    \/ OpenFails

SpecCli == InitCli /\ [][NextCli]_vars

TypeOK ==
    /\ pc \in {"start", "L177", "L205", "done", "caught"} \cup WritePcs \cup ReadPcs
    /\ isConnected \in BOOLEAN /\ isOpen \in BOOLEAN
    /\ attempts \in 0..MaxProbes
    /\ disconnects \in 0..1

-----------------------------------------------------------------------------
(* Vocabulary of the properties *)

Finished == pc \in {"done", "caught"}

PortWasOpened == pc \notin {"start", "L177"} /\ error # "open"

\* the awaited read is settled by this step
ResolvedNow ==
    /\ pc \in ReadPcs
    /\ reads[Len(reads)].st = "pending"
    /\ reads'[Len(reads)].st = "resolved"

TimedOutNow ==
    /\ pc \in ReadPcs
    /\ reads[Len(reads)].st = "pending"
    /\ reads'[Len(reads)].st = "rejected"

ProbeLines(k) == [i \in 1..k |-> Probe]

IsPrefix(s, t) == Len(s) <= Len(t) /\ SubSeq(t, 1, Len(s)) = s

\* the value of a string of decimal digits
RECURSIVE DigitsValue(_)
DigitsValue(d) ==
    IF d = <<>> THEN 0 ELSE 10 * DigitsValue(SubSeq(d, 1, Len(d) - 1)) + (d[Len(d)] - 48)

\* w is `write <n>\r\n` with n in decimal without leading zeros
AnnouncesLength(w, n) ==
    LET d == SubSeq(w, Len(WriteHead) + 1, Len(w) - 2)
    IN  /\ Len(w) > Len(WriteHead) + 2
        /\ SubSeq(w, 1, Len(WriteHead)) = WriteHead
        /\ SubSeq(w, Len(w) - 1, Len(w)) = CrLf
        /\ \A i \in DOMAIN d : d[i] \in 48..57
        /\ (Len(d) > 1 => d[1] # 48)
        /\ DigitsValue(d) = n

\* t is s without the white space at its two ends
IsTrimmed(t, s) ==
    /\ (t # <<>> => ~IsSpace(t[1]) /\ ~IsSpace(t[Len(t)]))
    /\ \E a \in 0..Len(s) :
          /\ a + Len(t) <= Len(s)
          /\ SubSeq(s, a + 1, a + Len(t)) = t
          /\ \A i \in 1..Len(s) : (i <= a \/ i > a + Len(t)) => IsSpace(s[i])

\* the file starts with the four bytes R, I, T, E
HasMarker(f) == Len(f) >= 4 /\ f[1] = 82 /\ f[2] = 73 /\ f[3] = 84 /\ f[4] = 69

ValidFiles == {k \in DOMAIN files : HasMarker(files[k])}

\* number of bytes of the valid files before the k-th file
RECURSIVE BytesBefore(_)
BytesBefore(k) ==
    IF k <= 1 THEN 0
    ELSE BytesBefore(k - 1) + (IF k - 1 \in ValidFiles THEN Len(files[k - 1]) ELSE 0)

-----------------------------------------------------------------------------
(* Properties *)

\* C1: whenever a run of mrbwrite_main that opened the port has finished,
\* disconnectSync has been called exactly once.
C1_ClosedExactlyOnce ==
    (Finished /\ PortWasOpened) => disconnects = 1

\* C2: a read of the banner probe that times out on a connected port (no write
\* having failed) does not
\* end the session: the timeout of the read inside sendCommandSync leads to the
\* 5000 ms read, the timeout of the 5000 ms read to the next probe.
C2_ProbeTimeoutRetries ==
    [][(TimedOutNow /\ isConnected /\ failed = {} /\ pc \in {"L181r", "L183"}) =>
          \/ pc = "L181r" /\ pc' = "L183"
          \/ pc = "L183" /\ pc' = "L181w" /\ attempts' = attempts + 1]_vars

\* C3: when every write so far succeeded, a timeout of the 1000 ms read that
\* follows the image does not abort the session.
C3_AckTimeoutTolerated ==
    [][(TimedOutNow /\ failed = {} /\ pc = "L194") => pc' # "caught"]_vars

\* C4 as stated: a session that completed without a failed write and without
\* the port closing by itself wrote the probe lines, `version`, `write N`, the image and `execute`, and
\* nothing else.
C4_WritesAsStated ==
    (pc = "done" /\ ~closeEvent /\ failed = {}) =>
        writes = ProbeLines(attempts) \o
                 <<Version, WriteCommand(bytecodes[1]), bytecodes[1], Execute>>

\* C4 amended: a session that completed wrote one or more probe lines, then
\* `version`, `write N`, the image, `version` a second time and `execute`, in
\* that order and nothing else; only the final `execute` is missing, when the
\* port closed by itself before it was issued.
C4_WritesInOrder ==
    pc = "done" =>
        LET full == ProbeLines(attempts) \o
                    <<Version, WriteCommand(bytecodes[1]), bytecodes[1],
                      Version, Execute>>
        IN  /\ attempts >= 1
            /\ IF closeEvent
               THEN IsPrefix(writes, full) /\ Len(writes) >= Len(full) - 1
               ELSE writes = full

C4_Witness ==
    /\ pc = "done"
    /\ ~closeEvent
    /\ failed = {}
    /\ attempts >= 2
    /\ Len(writes) = attempts + 5

\* C5: as long as no awaited read has resolved with a line that starts with
\* `+OK mruby/c`, every write issued is a probe line.
C5_NoCommandBeforeBanner ==
    ~bannerSeen => \A i \in DOMAIN writes : writes[i] = Probe

C5_Witness ==
    /\ bannerSeen
    /\ attempts >= 2
    /\ \E i \in DOMAIN writes : writes[i] = Execute

\* C6: when the 5000 ms read of the probe loop resolves with a line that does
\* not start with `+OK mruby/c`, the loop goes round: the next probe line is
\* written and the session is still in the probe phase.
C6_MismatchRetries ==
    [][(ResolvedNow /\ pc = "L183" /\ ~StartsWith(result', Banner)) =>
          /\ pc' = "L181w"
          /\ attempts' = attempts + 1
          /\ writes' = Append(writes, Probe)]_vars

C6_Witness ==
    /\ pc = "L181w"
    /\ attempts = 3
    /\ result = <<>>
    /\ lastData = BlankLine
    /\ writes = ProbeLines(3)

\* C7: whichever read of the probe phase resolves with a line that starts
\* with `+OK mruby/c`, the session goes on to the version step at once.
C7_AnyBannerEndsProbe ==
    [][(ResolvedNow /\ pc \in {"L181r", "L183"} /\ StartsWith(result', Banner)) =>
          pc' = "L187w"]_vars

\* C8: every `write <N>` command issued announces the exact number of bytes
\* of the image, and the write that follows it is the image itself, byte for
\* byte, with nothing appended.
C8_UploadFraming ==
    \A i \in DOMAIN writes :
        StartsWith(writes[i], WriteHead) =>
            /\ bytecodes # <<>>
            /\ AnnouncesLength(writes[i], Len(bytecodes[1]))
            /\ (i < Len(writes) =>
                   /\ writes[i + 1] = bytecodes[1]
                   /\ AnnouncesLength(writes[i], Len(writes[i + 1])))

C8_Witness ==
    \E i \in DOMAIN writes :
        /\ StartsWith(writes[i], WriteHead)
        /\ i < Len(writes)
        /\ Len(writes[i + 1]) >= 10
        /\ writes[i + 1] = bytecodes[1]

\* C9: a settled readSync call has nothing left pending: its timer is not
\* running and its listener is not registered.
C9_NothingLeftPending ==
    \A i \in DOMAIN reads :
        reads[i].st # "pending" => ~reads[i].timer /\ ~reads[i].listener

\* C10: a readSync call on a connected port stays pending with its timer and
\* its listener armed until it settles; it settles once, resolved with the
\* trimmed line or rejected by its timeout; after a timeout a late line only
\* removes the listener, and after a line the timer is not running.
C10_ReadSettlesOnce ==
    /\ [](\A i \in DOMAIN reads :
            /\ reads[i].st \in {"pending", "resolved", "rejected"}
            /\ reads[i].st = "pending" => reads[i].timer /\ reads[i].listener
            /\ reads[i].st = "resolved" => ~reads[i].timer /\ ~reads[i].listener
            /\ reads[i].st = "rejected" => ~reads[i].timer)
    /\ [][\A i \in DOMAIN reads :
            /\ reads[i].st # "pending" => reads'[i].st = reads[i].st
            /\ (reads[i].st = "pending" /\ reads'[i].st = "resolved") =>
                   /\ i = Len(reads)
                   /\ IsTrimmed(result', lastData')
            /\ (reads[i].st = "pending" /\ reads'[i].st = "rejected") =>
                   /\ i = Len(reads)
                   /\ lastData' = lastData
                   /\ LineOf(pc) \in SendLines \/ error' = "timeout"
            /\ (reads[i].st = "rejected" /\ reads[i].listener /\ ~reads'[i].listener
                  /\ pc \notin ReadPcs) =>
                   /\ pc' = pc
                   /\ error' = error]_vars

C10_Witness ==
    \E i, j \in DOMAIN reads :
        /\ reads[i].st = "rejected"
        /\ ~reads[i].listener
        /\ reads[j].st = "resolved"
        /\ i < j

\* C13: once the callback of a write has reported an error, no further write
\* is issued: a failed write is the last one of the session.
C13_FailedWriteIsLast ==
    \A i \in failed : i = Len(writes)

\* C14: the promise of mrbwrite_main is fulfilled only when the session ran to
\* its end, and rejected when the session ended in the catch block.
C14_OutcomeTellsFailure ==
    /\ mainOutcome.state = "fulfilled" => pc = "done"
    /\ pc = "caught" => mainOutcome.state = "rejected"

\* C15: only the read created last can be pending, and only while
\* mrbwrite_main awaits it; whenever a write is issued no read is pending.
C15_OneStepAtATime ==
    /\ [](\A i \in DOMAIN reads :
            reads[i].st = "pending" => i = Len(reads) /\ pc \in ReadPcs)
    /\ [][writes' # writes =>
            /\ Len(writes') = Len(writes) + 1
            /\ \A i \in DOMAIN reads' : reads'[i].st # "pending"]_vars

C15_Witness ==
    /\ pc = "L201w"
    /\ Len(writes) = attempts + 5
    /\ \E i \in DOMAIN reads : reads[i].st = "rejected" /\ reads[i].timeout = 1000
    /\ \E i \in DOMAIN reads : reads[i].st = "resolved" /\ reads[i].timeout = 1000

\* C17: on a connected port, when the read that follows `write <N>` settles,
\* by a line or by its timeout, the image is the next write.
C17_AckDoesNotGate ==
    [][(pc = "L191r" /\ isConnected /\ (ResolvedNow \/ TimedOutNow)) =>
          /\ pc' = "L193"
          /\ writes' = Append(writes, bytecodes[1])]_vars

C17_Witness ==
    /\ pc = "L193"
    /\ reads[Len(reads)].st = "rejected"
    /\ Len(writes) >= 2
    /\ StartsWith(writes[Len(writes) - 1], WriteHead)
    /\ writes[Len(writes)] = bytecodes[1]

\* C18: when a line runs the listener left by a timed-out read while another
\* read is pending, the pending read resolves with that line, trimmed.
C18_LeftoverListenerHarmless ==
    [][\A i \in 1..(Len(reads) - 1) :
          (pc \in ReadPcs /\ reads[Len(reads)].st = "pending"
             /\ reads[i].listener /\ ~reads'[i].listener) =>
              /\ reads'[Len(reads)].st = "resolved"
              /\ IsTrimmed(result', lastData')]_vars

C18_Witness ==
    \E i, j, k \in DOMAIN reads :
        /\ i < j /\ j < k
        /\ reads[i].st = "rejected" /\ ~reads[i].listener
        /\ reads[j].st = "rejected" /\ ~reads[j].listener
        /\ reads[k].st = "resolved"
        /\ result # Empty
        /\ IsTrimmed(result, lastData)

\* C11: sendCommandSync always resolves: when its write fails, when the port
\* is not connected or when its read times out, the caller gets "" and
\* records the command as a success; no call ends in the caller's catch.
C11_SendCommandNeverRejects ==
    /\ [](\A k \in DOMAIN results : results[k].success)
    /\ [][/\ ((pc = "L105w" /\ failed' # failed)
              \/ (pc = "L105w" /\ ~isConnected /\ pc' # pc)
              \/ (pc = "L105r" /\ reads[Len(reads)].st = "pending"
                                /\ reads'[Len(reads)].st = "rejected")) =>
                /\ Len(results') > Len(results)
                /\ results'[Len(results) + 1].success
                /\ results'[Len(results) + 1].result = Empty
                /\ results'[Len(results) + 1].command = commands[position]
          /\ (~isConnected /\ pc \in {"L100", "L110"}) =>
                \A k \in (Len(results) + 1)..Len(results') :
                    results'[k].success /\ results'[k].result = Empty]_vars

C11_Witness ==
    /\ pc = "L117"
    /\ Len(results) = 2
    /\ results[1].result = Empty
    /\ results[2].result = Empty
    /\ failed = {1}
    /\ Len(reads) = 1
    /\ reads[1].st = "rejected"

\* C19: while isConnected is false, a step of executeCommandsSync writes
\* nothing, creates no read, starts no timer and registers no listener, and
\* the command it takes is settled in that same step.
C19_DisconnectedLeavesAllUnchanged ==
    [][~isConnected =>
          /\ writes' = writes
          /\ Len(reads') = Len(reads)
          /\ \A i \in DOMAIN reads :
                /\ reads'[i].timer => reads[i].timer
                /\ reads'[i].listener => reads[i].listener
          /\ (pc \in {"L100", "L110"} /\ position < Len(commands)) =>
                Len(results') > Len(results)
          /\ pc = "L105w" => Len(results') > Len(results)]_vars

C19_Witness ==
    /\ closeEvent
    /\ failed = {}
    /\ Len(writes) = 1
    /\ reads = <<>>
    /\ Len(results) = 2

\* C20: executeCommandsSync records one result per command, in the order of
\* the commands and each with success true; a command is written only when
\* every earlier one has its result, and no read is pending then.
C20_OneResultPerCommand ==
    /\ [](/\ Len(results) <= Len(commands)
          /\ \A k \in DOMAIN results :
                results[k].success /\ results[k].command = commands[k]
          /\ pc = "L117" => Len(results) = Len(commands)
          /\ pc \in {"L105w", "L105r"} => position = Len(results) + 1
          /\ pc \in {"L110", "L117"} => position = Len(results)
          /\ \A i \in DOMAIN reads :
                reads[i].st = "pending" => i = Len(reads) /\ pc = "L105r")
    /\ [][writes' # writes =>
            /\ writes' = Append(writes, commands[position'])
            /\ Len(results') = position' - 1
            /\ \A i \in DOMAIN reads' : reads'[i].st # "pending"]_vars

C20_Witness ==
    /\ pc = "L117"
    /\ Len(commands) = 2
    /\ commands[1] # commands[2]
    /\ Len(writes) = 2
    /\ failed = {1}
    /\ results[2].result # Empty

\* C12: when no file named on the command line starts with `RITE`, the port
\* is not opened and nothing is written to it.
C12_NoImageNoTransport ==
    ValidFiles = {} => ~isOpen /\ writes = <<>>

\* C16: once the command line entry has called mrbwrite_main, the image it
\* passed holds the valid files one after the other in command line order,
\* each byte for byte, and nothing else: its length is the sum of their
\* lengths; files without the marker contribute nothing.
C16_ImagesConcatenated ==
    pc # "cli" =>
        IF ValidFiles = {} THEN bytecodes = <<>>
        ELSE /\ Len(bytecodes) = 1
             /\ Len(bytecodes[1]) = BytesBefore(Len(files) + 1)
             /\ \A k \in ValidFiles :
                    SubSeq(bytecodes[1], BytesBefore(k) + 1,
                           BytesBefore(k) + Len(files[k])) = files[k]

C16_Witness ==
    /\ pc = "L181w"
    /\ Len(files) = 3
    /\ ValidFiles = {1, 3}
    /\ files[1] # files[3]
    /\ Len(bytecodes[1]) = Len(files[1]) + Len(files[3])

====
